---- MODULE Spec2Model ----
(***************************************************************************)
(* A model of nanomath (src/nanomath/nanomath.py): get_N50,                *)
(* remove_length_outliers, ave_qual, calc_read_stats and write_stats.      *)
(*                                                                         *)
(* Numbers: lengths and qualities are integers; a float the code computes  *)
(* by a division (a mean, a median of an even number of values, a          *)
(* fraction) is kept as the exact ratio [num, den].  A pandas table is a   *)
(* record [columns, rows]; a dict is a function from its keys; None is     *)
(* the record None.                                                        *)
(***************************************************************************)
EXTENDS Integers, Sequences, FiniteSets, TLC

VARIABLES
    pc,           \* "table" | "lengths" | "column" | "quals": the caller is building
                  \* the argument; otherwise the name of the function that has run
    datadf,       \* the table argument: [columns |-> names, rows |-> sequence of rows]
    readlengths,  \* the argument of a direct get_N50 call
    quals,        \* the argument of an ave_qual call
    kwargs,       \* the keyword arguments of the ave_qual call
    outputfile,   \* the outputfile argument of write_stats ("" before the call)
    ret,          \* what the call returned
    raised,       \* the exception the call raised, "none" if it returned
    stat,         \* write_stats' local stat
    accessed,     \* calc_read_stats' accesses to datadf, in order
    stdout,       \* lines written to sys.stdout
    stderr,       \* lines written to sys.stderr
    files,        \* the file system: name -> [exists, lines]
    opened        \* the names passed to open(), in order

vars == <<pc, datadf, readlengths, quals, kwargs, outputfile, ret, raised, stat,
          accessed, stdout, stderr, files, opened>>

---------------------------------------------------------------------------
(* Bounds of the model. *)

MaxRows == 10         \* rows of a table given to calc_read_stats / write_stats
MaxSeq == 5           \* elements of the sequence given to get_N50
MaxLength == 4        \* the short read lengths given to get_N50 are 0..MaxLength
MaxColumn == 8        \* rows of the table given to remove_length_outliers
MaxQuals == 3         \* elements of the sequence given to ave_qual

(* Constants of the program. *)

MinReads == 10        \* if res["NumberOfReads"] < 10
TopCount == 5         \* np.argpartition(..., -5)[-5:]
OutlierSds == 3       \* median + 3 * std
QualStart == 5        \* range(5, 50, 5)
QualStop == 50
QualStep == 5

---------------------------------------------------------------------------
(* Python and numpy values. *)

None == [type |-> "NoneType"]
EmptyDict == [k \in {} |-> 0]
Ratio(n, d) == [num |-> n, den |-> d]

\* Python's truth value of None or a dict.
Truthy(x) == x # None /\ DOMAIN x # {}

RECURSIVE SeqSum(_)
SeqSum(s) == IF s = <<>> THEN 0 ELSE Head(s) + SeqSum(Tail(s))

\* np.cumsum(s)[i] (1-based).
CumSum(s, i) == SeqSum(SubSeq(s, 1, i))

RECURSIVE Insert(_, _)
Insert(x, s) ==
    IF s = <<>> THEN <<x>>
    ELSE IF x < Head(s) THEN <<x>> \o s
    ELSE <<Head(s)>> \o Insert(x, Tail(s))

\* np.sort: ascending.
RECURSIVE NpSort(_)
NpSort(s) == IF s = <<>> THEN <<>> ELSE Insert(Head(s), NpSort(Tail(s)))

\* Twice np.median of a non-empty sequence (the median of an even number of
\* values is the mean of the two middle ones).
Median2(s) ==
    LET t == NpSort(s)
        n == Len(s)
    IN IF n % 2 = 1 THEN 2 * t[(n + 1) \div 2] ELSE t[n \div 2] + t[n \div 2 + 1]

Range(s) == {s[i] : i \in DOMAIN s}

RECURSIVE SetToSortedSeq(_)
SetToSortedSeq(S) ==
    IF S = {} THEN <<>>
    ELSE LET m == CHOOSE x \in S : \A y \in S : x <= y
         IN <<m>> \o SetToSortedSeq(S \ {m})

\* np.unique: the distinct values, ascending.
NpUnique(s) == SetToSortedSeq(Range(s))

\* datadf[c]: the column as a sequence.
Column(df, c) == [i \in DOMAIN df.rows |-> df.rows[i][c]]

---------------------------------------------------------------------------
(* get_N50 *)

\* np.cumsum(readlengths) >= 0.5 * np.sum(readlengths), for one element of
\* the cumulative sum (exact: both sides are small integers and halves).
ExceedsHalf(cum, total) == 2 * cum > total
ReachesHalf(cum, total) == 2 * cum >= total

\* np.where(...)[0]: the indices where the condition holds.
HalfIndices(s) == {i \in DOMAIN s : ReachesHalf(CumSum(s, i), SeqSum(s))}

SetMin(S) == CHOOSE x \in S : \A y \in S : x <= y

\* get_N50: the element at the first such index; [0][0] of an empty index
\* array raises IndexError.
get_N50(s) ==
    IF HalfIndices(s) = {}
    THEN [raised |-> "IndexError", value |-> 0]
    ELSE [raised |-> "none", value |-> s[SetMin(HalfIndices(s))]]

---------------------------------------------------------------------------
(* remove_length_outliers *)

RECURSIVE SumSquares(_)
SumSquares(s) == IF s = <<>> THEN 0 ELSE Head(s) * Head(s) + SumSquares(Tail(s))

\* v < np.median(col) + 3 * np.std(col), with np.std the population standard
\* deviation sqrt(n * sum(x^2) - sum(x)^2) / n.  With d = 2v - 2*median the
\* comparison is d < 6 * std: true when d < 0, and otherwise the comparison
\* of the squares d^2 * n^2 < 36 * (n * sum(x^2) - sum(x)^2).
BelowCutoff(v, col) ==
    LET n == Len(col)
        d == 2 * v - Median2(col)
    IN \/ d < 0
       \/ d * d * n * n
            < 4 * OutlierSds * OutlierSds * (n * SumSquares(col) - SeqSum(col) * SeqSum(col))

\* df[df[columnname] < cutoff]: the rows whose mask is true, in their order.
remove_length_outliers(df, columnname) ==
    [df EXCEPT !.rows =
        SelectSeq(df.rows, LAMBDA r : BelowCutoff(r[columnname], Column(df, columnname)))]

---------------------------------------------------------------------------
(* ave_qual *)

RECURSIVE Pow10(_)
Pow10(e) == IF e = 0 THEN 1 ELSE 10 * Pow10(e - 1)

\* The qualities given to ave_qual are multiples of 10 up to 30, for which
\* 10**(q / -10) is the exact ratio ErrorProb(q) / ProbScale.
QualValues == {0, 10, 20, 30}
ProbScale == Pow10(3)
ErrorProb(q) == ProbScale \div Pow10(q \div 10)

RECURSIVE SumErrorProb(_)
SumErrorProb(s) == IF s = <<>> THEN 0 ELSE ErrorProb(Head(s)) + SumErrorProb(Tail(s))

\* 10000 * 10^(j/20) for j = 0..19, rounded: the base-10 logarithm of
\* math.log in steps of a twentieth of a decade.
TwentiethDecades ==
    <<10000, 11220, 12589, 14125, 15849, 17783, 19953, 22387, 25119, 28184,
      31623, 35481, 39811, 44668, 50119, 56234, 63096, 70795, 79433, 89125>>
LogScale == Pow10(4)

\* -10 * log(p, 10) >= h / 2 for p = s / (n * ProbScale) <= 1: that is
\* p <= 10^(-h/20), or s * 10^(h div 20) * 10^((h mod 20)/20) <= n * ProbScale.
PhredAtLeast(s, n, h) ==
    \/ h <= 0
    \/ s * TwentiethDecades[(h % 20) + 1] <= (n * ProbScale * LogScale) \div Pow10(h \div 20)

\* -10 * log(s / (n * ProbScale), 10) to the nearest integer, for
\* 0 < s <= n * ProbScale.
PhredRounded(s, n) ==
    CHOOSE k \in 0..40 : PhredAtLeast(s, n, 2 * k - 1) /\ ~PhredAtLeast(s, n, 2 * k + 1)

\* ave_qual(quals, **kw): the signature takes quals alone, so any keyword
\* argument is a TypeError at the call; len(quals) = 0 is a ZeroDivisionError.
\* The value is given to the nearest integer, with the mean error
\* probability it is the Phred score of.
ave_qual(qs, kw) ==
    IF kw # {} THEN [raised |-> "TypeError", rounded |-> 0, prob |-> Ratio(0, 1)]
    ELSE IF Len(qs) = 0 THEN [raised |-> "ZeroDivisionError", rounded |-> 0, prob |-> Ratio(0, 1)]
    ELSE [raised |-> "none",
          rounded |-> PhredRounded(SumErrorProb(qs), Len(qs)),
          prob |-> Ratio(SumErrorProb(qs), Len(qs) * ProbScale)]

---------------------------------------------------------------------------
(* calc_read_stats *)

HasColumnOrAligned(df, c) == c = "aligned_lengths" \/ c \in df.columns
HasColumn(df, c) == c \in df.columns

\* if res["NumberOfReads"] < 10: return None
TenOrFewerReads(n) == n <= MinReads
TooFewReads(n) == n < MinReads

\* The value that np.argpartition(a, -5) puts at position -5: the fifth
\* largest of a (Len(a) >= 5).
KthLargest(a) ==
    CHOOSE v \in Range(a) :
        /\ Cardinality({i \in DOMAIN a : a[i] > v}) < TopCount
        /\ Cardinality({i \in DOMAIN a : a[i] >= v}) >= TopCount

KSubsets(S, k) == {X \in SUBSET S : Cardinality(X) = k}

\* np.argpartition(a, -5)[-5:] is a sequence of five distinct indices: first
\* an index p holding the fifth largest value, then, in an order numpy does
\* not specify, four indices of values >= a[p], such that every index left
\* out holds a value <= a[p].  Pivots are the choices of p, Rests(a, p) the
\* choices of the set of the other four: every index above the fifth largest
\* value, filled up with indices that tie with it.
Pivots(a) == {i \in DOMAIN a : a[i] = KthLargest(a)}

Rests(a, p) ==
    LET above == {i \in DOMAIN a : a[i] > KthLargest(a)}
    IN {above \cup X : X \in KSubsets(Pivots(a) \ {p}, TopCount - 1 - Cardinality(above))}

\* The [length, quality] pairs of a set R of rows, with multiplicities.
PairBag(R, lens, qs) ==
    [v \in {<<lens[i], qs[i]>> : i \in R} |->
        Cardinality({i \in R : <<lens[i], qs[i]>> = v})]

\* The orders in which the pairs of a bag of four can be listed.
Arrangements(b) ==
    {s \in [1..(TopCount - 1) -> DOMAIN b] :
        \A v \in DOMAIN b : Cardinality({j \in DOMAIN s : s[j] = v}) = b[v]}

\* The keys of the two selections.
TopLengthKeys(lens, qs) == lens
TopQualKeysByLength(lens, qs) == lens
TopQualKeys(lens, qs) == qs

\* [list(e) for e in zip(list(readlengths[idx]), list(qualities[idx]))] for
\* every idx that np.argpartition(a, -5)[-5:] may return: the lists are
\* collected per set of selected rows, since index sequences that select
\* equal rows give the same list.
TopPairs(a, lens, qs) ==
    UNION {UNION {{<<(<<lens[p], qs[p]>>)>> \o s : s \in Arrangements(b)} :
                    b \in {PairBag(R, lens, qs) : R \in Rests(a, p)}} :
           p \in Pivots(a)}

\* range(5, 50, 5)
QualRange == {q \in QualStart..(QualStop - 1) : (q - QualStart) % QualStep = 0}

SeqMax(s) == CHOOSE x \in Range(s) : \A y \in Range(s) : y <= x

\* [q for q in range(5, 50, 5) if q < np.amax(qualities) + 5]
QualCutoffs(qs) == {q \in QualRange : q < SeqMax(qs) + QualStep}

\* np.sum(qualities > q)
NumberAtLeastQ(qs, q) == Cardinality({i \in DOMAIN qs : qs[i] >= q})
NumberAboveQ(qs, q) == Cardinality({i \in DOMAIN qs : qs[i] > q})

QualGroups(qs, n) ==
    [q \in QualCutoffs(qs) |-> <<NumberAboveQ(qs, q), Ratio(NumberAboveQ(qs, q), n)>>]

\* The dict calc_read_stats returns (None for fewer than ten reads), given
\* the two lists that the selections produced.
CalcRecord(df, topL, topQ) ==
    LET lens == Column(df, "lengths")
        n == Len(lens)
        runs == IF HasColumn(df, "runIDs")
                THEN "runIDs" :> NpUnique(Column(df, "runIDs")) ELSE EmptyDict
        chans == IF HasColumn(df, "channelIDs")
                 THEN "ActiveChannels" :> Cardinality(Range(Column(df, "channelIDs")))
                 ELSE EmptyDict
        pid == IF HasColumn(df, "percentIdentity")
               THEN ("ave-pID" :> Ratio(SeqSum(Column(df, "percentIdentity")), n))
                    @@ ("med-pID" :> Ratio(Median2(Column(df, "percentIdentity")), 2))
               ELSE EmptyDict
        aligned == IF HasColumn(df, "aligned_lengths")
                   THEN "TotalAlignedBases" :> SeqSum(Column(df, "aligned_lengths"))
                   ELSE EmptyDict
        basic == ("NumberOfReads" :> n)
                 @@ ("TotalBases" :> SeqSum(lens))
                 @@ ("MedianLength" :> Ratio(Median2(lens), 2))
                 @@ ("MeanLength" :> Ratio(SeqSum(lens), n))
        qual == IF HasColumn(df, "quals")
                THEN ("MaxLengthsAndQ" :> topL)
                     @@ ("MaxQualsAndL" :> topQ)
                     @@ ("QualGroups" :> QualGroups(Column(df, "quals"), n))
                ELSE EmptyDict
    IN IF TooFewReads(n) THEN None
       ELSE runs @@ chans @@ pid @@ aligned @@ basic @@ qual

\* Every result calc_read_stats(df) may return.
calc_read_stats(df) ==
    LET lens == Column(df, "lengths")
        qs == Column(df, "quals")
    IN IF TooFewReads(Len(lens)) \/ ~HasColumn(df, "quals")
       THEN {CalcRecord(df, <<>>, <<>>)}
       ELSE {CalcRecord(df, topL, topQ) :
                topL \in TopPairs(TopLengthKeys(lens, qs), lens, qs),
                topQ \in TopPairs(TopQualKeys(lens, qs), lens, qs)}

\* The accesses to datadf, in the order calc_read_stats makes them:
\* <<"in", c>> is the test `c in datadf`, <<"get", c>> is datadf[c].
Guarded(df, c, reads) ==
    <<(<<"in", c>>)>> \o (IF HasColumn(df, c) THEN [i \in 1..reads |-> <<"get", c>>] ELSE <<>>)

Accesses(df) ==
    <<(<<"get", "lengths">>)>>
    \o Guarded(df, "runIDs", 1)
    \o Guarded(df, "channelIDs", 1)
    \o (IF TooFewReads(Len(df.rows)) THEN <<>>
        ELSE Guarded(df, "percentIdentity", 2)
             \o Guarded(df, "aligned_lengths", 1)
             \o Guarded(df, "quals", 1))

---------------------------------------------------------------------------
(* write_stats *)

\* round(x, 2) of x = num / den >= 0: the nearest hundredth, a tie going to
\* the even one.
Round2(num, den) ==
    LET h == (100 * num) \div den
        r == (100 * num) % den
    IN IF 2 * r > den \/ (2 * r = den /\ h % 2 = 1)
       THEN Ratio(h + 1, 100) ELSE Ratio(h, 100)

RECURSIVE InsertDesc(_, _, _)
InsertDesc(x, t, k) ==
    IF t = <<>> THEN <<x>>
    ELSE IF Head(t)[k] > x[k] THEN <<Head(t)>> \o InsertDesc(x, Tail(t), k)
    ELSE <<x>> \o t

\* sorted(pairs, key=lambda x: x[k], reverse=True): descending by the k-th
\* component, equal keys in their original order.
Unsorted(pairs, k) == pairs
RECURSIVE SortedDesc(_, _)
SortedDesc(pairs, k) ==
    IF pairs = <<>> THEN <<>> ELSE InsertDesc(Head(pairs), SortedDesc(Tail(pairs), k), k)

\* One output.write(...): the text of the format string and its arguments.
Line(text, args) == [text |-> text, args |-> args]

PairLines(pairs) ==
    [i \in DOMAIN pairs |->
        Line("Length: {:,}bp\tQ: {}\n", <<pairs[i][1], Round2(pairs[i][2], 1)>>)]

CutoffLines(groups) ==
    LET qsorted == SetToSortedSeq(DOMAIN groups)
    IN [i \in DOMAIN qsorted |->
          Line("Q{}:\t{:,} ({}%)\n",
               <<qsorted[i], groups[qsorted[i]][1],
                 Round2(100 * groups[qsorted[i]][2].num, groups[qsorted[i]][2].den)>>)]

\* The writes of write_stats to its output, in order, for a stat that is true.
Report(df, st) ==
    <<Line("General summary\n", <<>>),
      Line("Number of reads:\t{:,}\n", <<st["NumberOfReads"]>>),
      Line("Total bases:\t{:,}\n", <<st["TotalBases"]>>)>>
    \o (IF "TotalAlignedBases" \in DOMAIN st
        THEN <<Line("Total bases aligned:\t{:,}\n", <<st["TotalAlignedBases"]>>)>>
        ELSE <<>>)
    \o <<Line("Median read length:\t{:,}\n", <<st["MedianLength"]>>),
         Line("Mean read length:\t{:,}\n",
              <<Round2(st["MeanLength"].num, st["MeanLength"].den)>>),
         Line("Readlength N50:\t{:,}\n", <<get_N50(NpSort(Column(df, "lengths"))).value>>),
         Line("\n", <<>>)>>
    \o (IF HasColumn(df, "quals")
        THEN <<Line("Top 5 read lengths and their average basecall quality score\n", <<>>)>>
             \o PairLines(SortedDesc(st["MaxLengthsAndQ"], 1))
             \o <<Line("\n", <<>>),
                  Line("Top 5 average basecall quality scores and their read lengths\n", <<>>)>>
             \o PairLines(SortedDesc(st["MaxQualsAndL"], 2))
             \o <<Line("\n", <<>>),
                  Line("Number of reads and fraction above quality cutoffs\n", <<>>)>>
             \o CutoffLines(st["QualGroups"])
        ELSE <<>>)
    \o (IF "ave-pID" \in DOMAIN st
        THEN <<Line("\nAverage percent identity:\t{:0.2f}\n", <<st["ave-pID"]>>),
               Line("Median percent identity:\t{:0.2f}\n", <<st["med-pID"]>>)>>
        ELSE <<>>)
    \o (IF "ActiveChannels" \in DOMAIN st
        THEN <<Line("\nData produced using {:,} active channels.\n", <<st["ActiveChannels"]>>)>>
        ELSE <<>>)
    \o (IF "runIDs" \in DOMAIN st
        THEN <<Line("\nData was produced in run(s) with ID:\n{}\n", <<st["runIDs"]>>)>>
        ELSE <<>>)

TooLow == Line("Number of reads too low for meaningful statistics.\n", <<>>)

\* The files write_stats passes to open(outputfile, 'wt').
OpensFirst(st, out) == IF out # "stdout" THEN <<out>> ELSE <<>>
Opens(st, out) == IF Truthy(st) /\ out # "stdout" THEN <<out>> ELSE <<>>

\* The file system after those opens (mode 'wt' creates or truncates) and
\* after the writes to the opened file.
FilesAfter(fs, df, st, out) ==
    [f \in DOMAIN fs |->
        IF f \in Range(Opens(st, out))
        THEN [exists |-> TRUE, lines |-> IF Truthy(st) THEN Report(df, st) ELSE <<>>]
        ELSE fs[f]]

StdoutAfter(so, df, st, out) ==
    IF Truthy(st) /\ out = "stdout" THEN so \o Report(df, st) ELSE so

StderrAfter(se, st) == IF Truthy(st) THEN se ELSE Append(se, TooLow)

---------------------------------------------------------------------------
(* The inputs. *)

OptionalColumns == {"quals", "aligned_lengths", "percentIdentity", "channelIDs", "runIDs"}

Read(l, q, a, p, c, r) ==
    [lengths |-> l, quals |-> q, aligned_lengths |-> a, percentIdentity |-> p,
     channelIDs |-> c, runIDs |-> r]

\* A table is built as runs of equal reads, one run per kind of read in the
\* order of the sequence of kinds (a run may be empty).  Run identifiers are
\* numbered in the order of their strings.
\* Mixed reads: two kinds tie in length and differ in quality; the qualities
\* lie below the first cutoff, on a cutoff and above the last one.
MixedReads ==
    <<Read(2, 47, 2, 90, 1, 2), Read(1, 0, 0, 75, 2, 1), Read(2, 10, 1, 100, 1, 2)>>

\* Uniform reads: equal in length and quality, different in the other columns.
UniformReads ==
    <<Read(3, 7, 3, 90, 1, 2), Read(3, 7, 1, 85, 2, 1)>>

\* Reads that differ in length only, among them a long one.
LengthReads ==
    <<Read(4, 0, 0, 0, 0, 0), Read(1, 0, 0, 0, 0, 0), Read(90, 0, 0, 0, 0, 0)>>

MixedColumnSets == {{}, {"quals"}, OptionalColumns}

\* The lengths given to get_N50 directly, and the values of the column given
\* to remove_length_outliers.
LengthValues == (0..MaxLength) \cup {90}
ColumnValues == {1, 2, 9}

OutputFiles == {"stdout", "old.txt", "new.txt"}

\* Before the call one file exists, with content, and the other does not.
InitialFiles ==
    [f \in {"old.txt", "new.txt"} |->
        IF f = "old.txt" THEN [exists |-> TRUE, lines |-> <<Line("stale\n", <<>>)>>]
        ELSE [exists |-> FALSE, lines |-> <<>>]]

Start(p, cols) ==
    /\ pc = p
    /\ datadf = [columns |-> {"lengths"} \cup cols, rows |-> <<>>]
    /\ readlengths = <<>>
    /\ quals = <<>>
    /\ kwargs = {}
    /\ outputfile = ""
    /\ ret = None
    /\ raised = "none"
    /\ stat = None
    /\ accessed = <<>>
    /\ stdout = <<>>
    /\ stderr = <<>>
    /\ files = InitialFiles
    /\ opened = <<>>

---------------------------------------------------------------------------
(* The caller builds an argument. *)

KindOf(kinds, r) == CHOOSE i \in DOMAIN kinds : kinds[i] = r

AddRow(kinds) ==
    /\ pc = "table"
    /\ Len(datadf.rows) < MaxRows
    /\ \E i \in DOMAIN kinds :
        /\ IF datadf.rows = <<>> THEN TRUE
           ELSE i >= KindOf(kinds, datadf.rows[Len(datadf.rows)])
        /\ datadf' = [datadf EXCEPT !.rows = Append(@, kinds[i])]
    /\ UNCHANGED <<pc, readlengths, quals, kwargs, outputfile, ret, raised, stat,
                   accessed, stdout, stderr, files, opened>>

\* get_N50 is given ascending lengths.
AppendLength ==
    /\ pc = "lengths"
    /\ Len(readlengths) < MaxSeq
    /\ \E l \in LengthValues :
        /\ IF readlengths = <<>> THEN TRUE ELSE l >= readlengths[Len(readlengths)]
        /\ readlengths' = Append(readlengths, l)
    /\ UNCHANGED <<pc, datadf, quals, kwargs, outputfile, ret, raised, stat,
                   accessed, stdout, stderr, files, opened>>

AppendValue ==
    /\ pc = "column"
    /\ Len(datadf.rows) < MaxColumn
    /\ \E v \in ColumnValues :
        datadf' = [datadf EXCEPT !.rows = Append(@, Read(v, 0, 0, 0, 0, 0))]
    /\ UNCHANGED <<pc, readlengths, quals, kwargs, outputfile, ret, raised, stat,
                   accessed, stdout, stderr, files, opened>>

AppendQual ==
    /\ pc = "quals"
    /\ Len(quals) < MaxQuals
    /\ \E q \in QualValues : quals' = Append(quals, q)
    /\ UNCHANGED <<pc, datadf, readlengths, kwargs, outputfile, ret, raised, stat,
                   accessed, stdout, stderr, files, opened>>

---------------------------------------------------------------------------
(* The calls. *)

GetN50 ==
    /\ pc = "lengths"
    /\ pc' = "get_N50"
    /\ ret' = get_N50(readlengths)
    /\ raised' = get_N50(readlengths).raised
    /\ UNCHANGED <<datadf, readlengths, quals, kwargs, outputfile, stat,
                   accessed, stdout, stderr, files, opened>>

RemoveLengthOutliers ==
    /\ pc = "column"
    /\ pc' = "remove_length_outliers"
    /\ ret' = remove_length_outliers(datadf, "lengths")
    /\ UNCHANGED <<datadf, readlengths, quals, kwargs, outputfile, raised, stat,
                   accessed, stdout, stderr, files, opened>>

\* ave_qual(quals) or ave_qual(quals, qround=True)
AveQual ==
    /\ pc = "quals"
    /\ pc' = "ave_qual"
    /\ \E kw \in {{}, {"qround"}} :
        /\ kwargs' = kw
        /\ ret' = ave_qual(quals, kw)
        /\ raised' = ave_qual(quals, kw).raised
    /\ UNCHANGED <<datadf, readlengths, quals, outputfile, stat,
                   accessed, stdout, stderr, files, opened>>

CalcReadStats ==
    /\ pc = "table"
    /\ pc' = "calc_read_stats"
    /\ \E res \in calc_read_stats(datadf) : ret' = res
    /\ accessed' = Accesses(datadf)
    /\ UNCHANGED <<datadf, readlengths, quals, kwargs, outputfile, raised, stat,
                   stdout, stderr, files, opened>>

\* write_stats(datadf, outputfile): the call of calc_read_stats included.
WriteStats ==
    /\ pc = "table"
    /\ pc' = "write_stats"
    /\ \E out \in OutputFiles, res \in calc_read_stats(datadf) :
        /\ outputfile' = out
        /\ stat' = res
        /\ opened' = opened \o Opens(res, out)
        /\ files' = FilesAfter(files, datadf, res, out)
        /\ stdout' = StdoutAfter(stdout, datadf, res, out)
        /\ stderr' = StderrAfter(stderr, res)
    /\ accessed' = Accesses(datadf)
    /\ UNCHANGED <<datadf, readlengths, quals, kwargs, ret, raised>>

---------------------------------------------------------------------------
(* The specifications. *)

\* Tables of mixed reads, without and with qualities.
Init == \E cols \in MixedColumnSets : Start("table", cols)
Next == AddRow(MixedReads) \/ CalcReadStats \/ WriteStats
Spec == Init /\ [][Next]_vars

\* Tables of uniform reads with every set of optional columns.
InitColumns == \E cols \in SUBSET OptionalColumns : Start("table", cols)
NextColumns == AddRow(UniformReads) \/ CalcReadStats \/ WriteStats
SpecColumns == InitColumns /\ [][NextColumns]_vars

\* get_N50 called directly, and by write_stats on tables of lengths.
InitN50 == Start("lengths", {}) \/ Start("table", {})
NextN50 == AppendLength \/ GetN50 \/ AddRow(LengthReads) \/ CalcReadStats \/ WriteStats
SpecN50 == InitN50 /\ [][NextN50]_vars

InitOutliers == Start("column", {})
NextOutliers == AppendValue \/ RemoveLengthOutliers
SpecOutliers == InitOutliers /\ [][NextOutliers]_vars

InitAveQual == Start("quals", {})
NextAveQual == AppendQual \/ AveQual
SpecAveQual == InitAveQual /\ [][NextAveQual]_vars

---------------------------------------------------------------------------
(* The claims. *)

Rows == datadf.rows
NRows == Len(datadf.rows)
Lengths == Column(datadf, "lengths")

\* The record calc_read_stats built: returned by the direct call, or kept by
\* write_stats in stat.
Built == pc \in {"calc_read_stats", "write_stats"}
Record == IF pc = "calc_read_stats" THEN ret ELSE stat

\* What write_stats wrote to the output it was given.
Sink == IF outputfile = "stdout" THEN stdout ELSE files[outputfile].lines
Pos(out, text) == CHOOSE i \in DOMAIN out : out[i].text = text
Count(out, text) == Cardinality({i \in DOMAIN out : out[i].text = text})

\* L is the N50 of the lengths s taken in ascending order: the lengths below
\* L sum to less than half the total, those up to L to at least half.
IsN50(L, s) ==
    /\ L \in Range(s)
    /\ 2 * SeqSum(SelectSeq(s, LAMBDA x : x < L)) < SeqSum(s)
    /\ 2 * SeqSum(SelectSeq(s, LAMBDA x : x <= L)) >= SeqSum(s)

N50Text == "Readlength N50:\t{:,}\n"

\* C1: for a non-empty ascending sequence of lengths with a positive total,
\* get_N50 returns the element at the first index whose cumulative sum is at
\* least half the total (the cumulative sum before it is less than half), a
\* value between the smallest and the largest length, 90 for [1,2,3,4,90];
\* and the N50 that write_stats writes is that of the table's lengths taken
\* in ascending order.
C1_N50 ==
    /\ (pc = "get_N50" /\ readlengths # <<>> /\ SeqSum(readlengths) > 0) =>
        /\ raised = "none"
        /\ \E i \in DOMAIN readlengths :
            /\ ret.value = readlengths[i]
            /\ 2 * CumSum(readlengths, i) >= SeqSum(readlengths)
            /\ 2 * CumSum(readlengths, i - 1) < SeqSum(readlengths)
        /\ readlengths[1] <= ret.value
        /\ ret.value <= readlengths[Len(readlengths)]
        /\ (readlengths = <<1, 2, 3, 4, 90>> => ret.value = 90)
    /\ (pc = "write_stats" /\ NRows >= 10) =>
        /\ Count(Sink, N50Text) = 1
        /\ IsN50(Sink[Pos(Sink, N50Text)].args[1], Lengths)

C1_Witness ==
    /\ pc = "get_N50"
    /\ readlengths = <<1, 2, 3, 4, 90>>
    /\ ret.value = 90

\* C2: calc_read_stats returns None for a table of fewer than 10 rows,
\* whatever its optional columns, and a record for 10 rows or more.
C2_MinReads ==
    pc = "calc_read_stats" =>
        /\ NRows < 10 => ret = None
        /\ NRows >= 10 => (ret # None /\ ret["NumberOfReads"] = NRows)

C2_Witness ==
    /\ pc = "calc_read_stats"
    /\ NRows = 9
    /\ datadf.columns = {"lengths"} \cup OptionalColumns
    /\ Range(Column(datadf, "runIDs")) = {1, 2}
    /\ ret = None

\* C3: ave_qual of an empty sequence returns a value and does not raise.
C3_EmptyAveQual ==
    (pc = "ave_qual" /\ quals = <<>> /\ kwargs = {}) => raised = "none"

\* A row's value is greater than median + 3 * (population) standard deviation.
AboveCutoff(v, col) ==
    LET n == Len(col)
        d == 2 * v - Median2(col)
    IN d > 0 /\ d * d * n * n > 36 * (n * SumSquares(col) - SeqSum(col) * SeqSum(col))

\* C4: when no value of the column is greater than median + 3 * standard
\* deviation, remove_length_outliers returns the rows of its input, in order.
C4_NoOutliers ==
    (pc = "remove_length_outliers" /\ \A i \in DOMAIN Rows : ~AboveCutoff(Lengths[i], Lengths))
        => ret.rows = Rows

\* How many elements of the sequence s equal v.
Occurrences(s, v) == Cardinality({i \in DOMAIN s : s[i] = v})
RowPairs == [i \in DOMAIN Rows |-> <<Rows[i].lengths, Rows[i].quals>>]

\* The list is a selection of at most min(5, n) distinct rows by the k-th
\* component of their [length, quality] pair: no pair is listed more often
\* than the table has rows with it, and no row left out (a pair with more
\* rows than listings) has a key above that of a listed one.
IsTopSelection(list, k) ==
    /\ Len(list) <= 5
    /\ Len(list) <= NRows
    /\ \A j \in DOMAIN list : Occurrences(list, list[j]) <= Occurrences(RowPairs, list[j])
    /\ \A i \in DOMAIN RowPairs :
        Occurrences(RowPairs, RowPairs[i]) > Occurrences(list, RowPairs[i])
            => \A j \in DOMAIN list : list[j][k] >= RowPairs[i][k]

\* C5: for a table of at least 10 rows with a quals column, MaxLengthsAndQ
\* and MaxQualsAndL each list at most min(5, n) [length, quality] pairs of
\* pairwise distinct rows, and every listed row's key (its length, its
\* quality) is at least the key of every row not listed, ties included.
C5_TopFive ==
    (Built /\ NRows >= 10 /\ "quals" \in datadf.columns) =>
        /\ IsTopSelection(Record["MaxLengthsAndQ"], 1)
        /\ IsTopSelection(Record["MaxQualsAndL"], 2)

\* Rows that tie in length across the boundary of the selection: a listed
\* and an unlisted row of the same length, and two listed qualities.
C5_Witness ==
    /\ pc = "calc_read_stats"
    /\ NRows >= 10
    /\ "quals" \in datadf.columns
    /\ Len(ret["MaxLengthsAndQ"]) = 5
    /\ \E i, j \in 1..5 : ret["MaxLengthsAndQ"][i][2] # ret["MaxLengthsAndQ"][j][2]
    /\ \E i \in DOMAIN RowPairs :
        /\ Occurrences(RowPairs, RowPairs[i]) > Occurrences(ret["MaxLengthsAndQ"], RowPairs[i])
        /\ RowPairs[i][1] = ret["MaxLengthsAndQ"][1][1]

\* C6: QualGroups has as keys the multiples of 5 in 5..45 below the highest
\* quality + 5; the count of a key q is the number of rows of quality above
\* q, between 0 and the number of reads, and does not grow with q.
C6_QualGroups ==
    (Built /\ NRows >= 10 /\ "quals" \in datadf.columns) =>
        LET g == Record["QualGroups"]
        IN /\ DOMAIN g = {q \in {5, 10, 15, 20, 25, 30, 35, 40, 45} :
                            \E i \in DOMAIN Rows : q < Rows[i].quals + 5}
           /\ \A q \in DOMAIN g :
                /\ g[q][1] = Cardinality({i \in DOMAIN Rows : Rows[i].quals > q})
                /\ g[q][1] >= 0
                /\ g[q][1] <= NRows
           /\ \A q1, q2 \in DOMAIN g : q1 < q2 => g[q2][1] <= g[q1][1]

C6_Witness ==
    /\ pc = "calc_read_stats"
    /\ NRows >= 10
    /\ "quals" \in datadf.columns
    /\ DOMAIN ret["QualGroups"] = {5, 10, 15, 20, 25, 30, 35, 40, 45}
    /\ ret["QualGroups"][5][1] > ret["QualGroups"][10][1]
    /\ ret["QualGroups"][45][1] > 0
    /\ \E i \in DOMAIN Rows : Rows[i].quals = 10

\* C7: the record of a table of at least 10 rows has the read count, the
\* total bases, the median and the mean length, and each conditional field
\* exactly when its column is in the table; calc_read_stats reads an
\* optional column only after the test that found it in the table.
C7_Columns ==
    pc = "calc_read_stats" =>
        /\ NRows >= 10 =>
            /\ {"NumberOfReads", "TotalBases", "MedianLength", "MeanLength"} \subseteq DOMAIN ret
            /\ "TotalAlignedBases" \in DOMAIN ret <=> "aligned_lengths" \in datadf.columns
            /\ "ave-pID" \in DOMAIN ret <=> "percentIdentity" \in datadf.columns
            /\ "med-pID" \in DOMAIN ret <=> "percentIdentity" \in datadf.columns
            /\ "ActiveChannels" \in DOMAIN ret <=> "channelIDs" \in datadf.columns
            /\ "runIDs" \in DOMAIN ret <=> "runIDs" \in datadf.columns
            /\ "MaxLengthsAndQ" \in DOMAIN ret <=> "quals" \in datadf.columns
            /\ "MaxQualsAndL" \in DOMAIN ret <=> "quals" \in datadf.columns
            /\ "QualGroups" \in DOMAIN ret <=> "quals" \in datadf.columns
        /\ \A i \in DOMAIN accessed :
            (accessed[i][1] = "get" /\ accessed[i][2] \in OptionalColumns) =>
                /\ accessed[i][2] \in datadf.columns
                /\ \E j \in 1..(i - 1) : accessed[j] = <<"in", accessed[i][2]>>

C7_Witness ==
    /\ pc = "calc_read_stats"
    /\ NRows >= 10
    /\ datadf.columns = {"lengths", "percentIdentity", "runIDs"}
    /\ "ave-pID" \in DOMAIN ret
    /\ "runIDs" \in DOMAIN ret
    /\ "TotalAlignedBases" \notin DOMAIN ret
    /\ \E i \in DOMAIN accessed : accessed[i] = <<"get", "percentIdentity">>

\* C8: ave_qual returns -10 * log10 of the mean of 10^(-q/10), which is 10
\* for copies of 10 and about 10.46 (10 to the nearest integer) for
\* [10,20,30], not the arithmetic mean 20; with qround=True it returns the
\* value rounded to an integer.
C8_PhredMean ==
    pc = "ave_qual" =>
        /\ kwargs = {"qround"} => raised = "none"
        /\ (kwargs = {} /\ quals # <<>>) =>
            /\ raised = "none"
            /\ ret.prob = Ratio(SumErrorProb(quals), Len(quals) * 1000)
            /\ (\A i \in DOMAIN quals : quals[i] = 10) => ret.rounded = 10
            /\ quals = <<10, 20, 30>> => ret.rounded = 10

TooLowText == "Number of reads too low for meaningful statistics.\n"

\* C9: for a table of fewer than 10 rows write_stats writes nothing to its
\* output and opens, creates or truncates no file; it writes the message to
\* the error stream and does not raise.  For 10 rows or more the output is
\* opened (a named file) and written, and the error stream gets nothing.
C9_TooLow ==
    pc = "write_stats" =>
        /\ NRows < 10 =>
            /\ stdout = <<>>
            /\ opened = <<>>
            /\ files = InitialFiles
            /\ Len(stderr) = 1
            /\ stderr[1].text = TooLowText
            /\ raised = "none"
        /\ NRows >= 10 =>
            /\ stderr = <<>>
            /\ Sink # <<>>
            /\ outputfile # "stdout" =>
                /\ opened = <<outputfile>>
                /\ files[outputfile].exists
                /\ stdout = <<>>
            /\ outputfile = "stdout" => (opened = <<>> /\ files = InitialFiles)

C9_Witness ==
    /\ pc = "write_stats"
    /\ NRows = 9
    /\ outputfile = "old.txt"
    /\ files["old.txt"].lines # <<>>
    /\ Len(stderr) = 1

SummaryText == "General summary\n"
TopLengthsText == "Top 5 read lengths and their average basecall quality score\n"
TopQualsText == "Top 5 average basecall quality scores and their read lengths\n"
CutoffsText == "Number of reads and fraction above quality cutoffs\n"
PairText == "Length: {:,}bp\tQ: {}\n"
CutoffText == "Q{}:\t{:,} ({}%)\n"

\* C10: a report starts with the "General summary" line, followed by the
\* count, total, median, mean and N50 lines; the three quality blocks are
\* written exactly when the table has a quals column, after those lines and
\* in the order top 5 by length, top 5 by quality, cutoffs; the rows of the
\* first block do not increase in length, those of the second do not
\* increase in quality, those of the third increase in cutoff.
C10_ReportOrder ==
    (pc = "write_stats" /\ NRows >= 10) =>
        LET out == Sink
            at(text) == Pos(out, text)
            pairs(lo, hi) == {i \in DOMAIN out : lo < i /\ i < hi /\ out[i].text = PairText}
        IN /\ out[1].text = SummaryText
           /\ \A t \in {SummaryText, "Number of reads:\t{:,}\n", "Total bases:\t{:,}\n",
                        "Median read length:\t{:,}\n", "Mean read length:\t{:,}\n", N50Text} :
                Count(out, t) = 1
           /\ at("Number of reads:\t{:,}\n") < at("Total bases:\t{:,}\n")
           /\ at("Total bases:\t{:,}\n") < at("Median read length:\t{:,}\n")
           /\ at("Median read length:\t{:,}\n") < at("Mean read length:\t{:,}\n")
           /\ at("Mean read length:\t{:,}\n") < at(N50Text)
           /\ \A t \in {TopLengthsText, TopQualsText, CutoffsText} :
                Count(out, t) = IF "quals" \in datadf.columns THEN 1 ELSE 0
           /\ "quals" \notin datadf.columns =>
                \A i \in DOMAIN out : out[i].text \notin {PairText, CutoffText}
           /\ "quals" \in datadf.columns =>
                /\ at(N50Text) < at(TopLengthsText)
                /\ at(TopLengthsText) < at(TopQualsText)
                /\ at(TopQualsText) < at(CutoffsText)
                /\ \A i \in DOMAIN out : out[i].text = PairText => at(TopLengthsText) < i
                /\ \A i \in DOMAIN out : out[i].text = CutoffText => at(CutoffsText) < i
                /\ Cardinality(pairs(at(TopLengthsText), at(TopQualsText)))
                     = Len(stat["MaxLengthsAndQ"])
                /\ Cardinality(pairs(at(TopQualsText), at(CutoffsText)))
                     = Len(stat["MaxQualsAndL"])
                /\ \A i, j \in pairs(at(TopLengthsText), at(TopQualsText)) :
                     i < j => out[i].args[1] >= out[j].args[1]
                /\ \A i, j \in pairs(at(TopQualsText), at(CutoffsText)) :
                     i < j => out[i].args[2].num >= out[j].args[2].num
                /\ \A i, j \in DOMAIN out :
                     (out[i].text = CutoffText /\ out[j].text = CutoffText /\ i < j)
                        => out[i].args[1] < out[j].args[1]
                /\ Count(out, CutoffText) = Cardinality(DOMAIN stat["QualGroups"])

\* A report whose selections came out of calc_read_stats in another order
\* than the one written, with several cutoff rows.
C10_Witness ==
    /\ pc = "write_stats"
    /\ NRows >= 10
    /\ "quals" \in datadf.columns
    /\ \E i, j \in 1..5 : i < j /\ stat["MaxQualsAndL"][i][2] < stat["MaxQualsAndL"][j][2]
    /\ Count(Sink, CutoffText) = 9
    /\ Count(Sink, PairText) = 10

====
